---- MODULE Spec2Model ----
(***************************************************************************)
(* Plot dispatchers and backend helpers of arviz:                          *)
(*   plot_joint        (arviz/plots/jointplot.py)                          *)
(*   plot_autocorr     (arviz/plots/autocorrplot.py)                       *)
(*   _plot_dist_bokeh, _histplot_bokeh_op                                  *)
(*                     (arviz/plots/backends/bokeh/bokeh_distplot.py)      *)
(*   _plot_energy      (arviz/plots/backends/matplotlib/mpl_energyplot.py) *)
(*                                                                         *)
(* Every function is synchronous; a call is one action.  A call's          *)
(* arguments are held in `args`, what the call did (error raised, steps    *)
(* run in order, bundle handed to a backend, caller mappings after the     *)
(* call) in `last`.  Python dicts are functions over a set of string keys, *)
(* None is the empty tuple and a present optional value v is <<v>>.        *)
(***************************************************************************)
EXTENDS Integers, Sequences, FiniteSets, TLC

VARIABLES args, last, pc, mk

vars == <<args, last, pc, mk>>

\* ------------------------------------------------------------ Python values

None == <<>>

Some(v) == <<v>>

EmptyDict == [k \in {} |-> 0]

Keys(d) == DOMAIN d

Put(d, k, v) == [x \in (DOMAIN d) \cup {k} |-> IF x = k THEN v ELSE d[x]]

Pop(d, k) == [x \in (DOMAIN d) \ {k} |-> d[x]]

SetDefault(d, k, v) == IF k \in DOMAIN d THEN d ELSE Put(d, k, v)

Get(d, k, default) == IF k \in DOMAIN d THEN d[k] ELSE default

RECURSIVE Concat(_)
Concat(ss) == IF ss = <<>> THEN <<>> ELSE Head(ss) \o Concat(Tail(ss))

\* The result of a call that raised: nothing reached a backend.
Raise(op, exc, info, steps, mapping) ==
  [op |-> op, raised |-> exc, info |-> info, steps |-> steps,
   adapter |-> "none", bundle |-> EmptyDict, mapping |-> mapping]

\* The result of a call that returned after handing `bundle` to `adapter`.
Return(op, steps, adapter, bundle, mapping) ==
  [op |-> op, raised |-> "none", info |-> EmptyDict, steps |-> steps,
   adapter |-> adapter, bundle |-> bundle, mapping |-> mapping]

NoCall == [op |-> "none"]

\* ------------------------------------------------------------ the posterior

\* The docstring's dataset: scalars mu and tau, theta indexed by school.
Schools == <<"Choate", "Phillips Andover">>

VarOrder == <<"mu", "tau", "theta">>

VarDims == [v \in {"mu", "tau", "theta"} |-> IF v = "theta" THEN <<"school">> ELSE <<>>]

\* A posterior with the given number of draws per chain.
Posterior(draws) == [vars |-> VarOrder, schools |-> Schools, draws |-> draws]

\* ------------------------------------------------------------ collaborators
\* convert_to_dataset, _var_names, get_coords, xarray_var_iter and
\* _scale_fig_size live in arviz.data, arviz.utils and arviz.plots.plot_utils.

\* The inputs of this model are datasets already: the posterior group is
\* handed back as it is.
convert_to_dataset(data) == data

_var_names(var_names, data) == var_names

\* Dataset.sel: a dimension named in coords keeps only the listed values.
get_coords(data, coords) ==
  [data EXCEPT !.schools =
     SelectSeq(data.schools,
               LAMBDA s : "school" \notin DOMAIN coords \/ s \in coords["school"])]

\* One plot unit per (variable, coordinate combination), variables in the
\* requested order (all of them when var_names is None), coordinates in the
\* declared order; a variable without extra dimensions gives one unit with an
\* empty selection.
xarray_var_iter(data, var_names, combined) ==
  LET names == IF var_names = None THEN data.vars ELSE var_names[1]
      units(v) ==
        IF VarDims[v] = <<>>
          THEN << [var |-> v, selection |-> EmptyDict] >>
          ELSE [i \in 1..Len(data.schools) |->
                  [var |-> v, selection |-> [d \in {"school"} |-> data.schools[i]]]]
  IN Concat([i \in 1..Len(names) |-> units(names[i])])

\* ------------------------------------------------------------ plot_joint

valid_kinds_wide == <<"scatter", "kde", "hexbin", "bogus">>

valid_kinds == <<"scatter", "kde", "hexbin">>

kind_not_valid(kind) == \A i \in DOMAIN valid_kinds : valid_kinds[i] # kind

wrong_count_lenient(plotters) == Len(plotters) < 2

\* if len(plotters) != 2
wrong_count(plotters) == Len(plotters) # 2

\* What the Exception's message is formatted with.
supplied_count(plotters) == Len(plotters)

\* marginal_kwargs as the dispatcher leaves it before choosing a backend.
joint_marginal_kwargs(marginal_kwargs, linewidth) ==
  LET m0 == IF marginal_kwargs = None THEN EmptyDict ELSE marginal_kwargs[1]
      m1 == SetDefault(m0, "plot_kwargs", EmptyDict)
  IN Put(m1, "plot_kwargs", Put(m1["plot_kwargs"], "linewidth", linewidth))

joint_bundle(a, plotters, marginal) ==
  ("ax" :> a.ax) @@ ("figsize" :> a.scaled.figsize) @@ ("plotters" :> plotters)
  @@ ("ax_labelsize" :> a.scaled.ax_labelsize)
  @@ ("xt_labelsize" :> a.scaled.xt_labelsize)
  @@ ("kind" :> a.kind) @@ ("contour" :> a.contour) @@ ("fill_last" :> a.fill_last)
  @@ ("joint_kwargs" :> (IF a.joint_kwargs = None THEN EmptyDict ELSE a.joint_kwargs[1]))
  @@ ("gridsize" :> a.gridsize) @@ ("marginal_kwargs" :> marginal)

joint_bokeh_keep_linewidth(b, show) ==
  LET pk == b["marginal_kwargs"]["plot_kwargs"]
      pk2 == Put(pk, "line_width", pk["linewidth"])
      b1 == Pop(b, "ax_labelsize")
      b2 == Put(b1, "marginal_kwargs", Put(b1["marginal_kwargs"], "plot_kwargs", pk2))
  IN Put(b2, "show", show)

\* The bokeh branch: ax_labelsize popped, plot_kwargs' linewidth renamed to
\* line_width, show added.
joint_bokeh(b, show) ==
  LET pk == b["marginal_kwargs"]["plot_kwargs"]
      pk2 == Put(Pop(pk, "linewidth"), "line_width", pk["linewidth"])
      b1 == Pop(b, "ax_labelsize")
      b2 == Put(b1, "marginal_kwargs", Put(b1["marginal_kwargs"], "plot_kwargs", pk2))
  IN Put(b2, "show", show)

\* The steps of plot_joint after the kind check, in program order.
JointSteps ==
  << "convert_to_dataset", "_var_names", "get_coords", "xarray_var_iter",
     "_scale_fig_size", "marginal_kwargs.setdefault", "_plot_joint" >>

\* The caller's mapping after the call: the object handed in, as mutated.
CallerMapping(marginal_kwargs, left) ==
  IF marginal_kwargs = None THEN None ELSE Some(left)

plot_joint(a) ==
  IF kind_not_valid(a.kind)
    THEN Raise("plot_joint", "ValueError",
               [kind |-> a.kind, accepted |-> valid_kinds], <<>>, a.marginal_kwargs)
    ELSE
      LET data == convert_to_dataset(a.data)
          coords == IF a.coords = None THEN EmptyDict ELSE a.coords[1]
          var_names == _var_names(a.var_names, data)
          plotters == xarray_var_iter(get_coords(data, coords), var_names, TRUE)
      IN IF wrong_count(plotters)
           THEN Raise("plot_joint", "Exception",
                      [supplied |-> supplied_count(plotters)],
                      SubSeq(JointSteps, 1, 4), a.marginal_kwargs)
           ELSE
             LET marginal == joint_marginal_kwargs(a.marginal_kwargs, a.scaled.linewidth)
                 b == joint_bundle(a, plotters, marginal)
             IN IF a.backend = "bokeh"
                  THEN LET bb == joint_bokeh(b, a.show)
                       IN Return("plot_joint", JointSteps, "bokeh", bb,
                                 CallerMapping(a.marginal_kwargs, bb["marginal_kwargs"]))
                  ELSE Return("plot_joint", JointSteps, "matplotlib", b,
                              CallerMapping(a.marginal_kwargs, marginal))

\* ------------------------------------------------------------ plot_autocorr

\* Units carrying a zero-length dimension are pruned; the posterior has none.
filter_plotters_list(plotters, plot_name) == plotters

default_max_lag_uncapped(draws) == draws

\* min(100, data["draw"].shape[0])
default_max_lag(draws) == IF 100 < draws THEN 100 ELSE draws

\* if max_lag is None: max_lag = min(100, draws)
resolve_max_lag(max_lag, draws) ==
  IF max_lag = None THEN default_max_lag(draws) ELSE max_lag[1]

autocorr_plot_args(a, axes, plotters, max_lag) ==
  ("axes" :> axes) @@ ("plotters" :> plotters) @@ ("max_lag" :> max_lag)
  @@ ("combined" :> a.combined) @@ ("linewidth" :> a.scaled.linewidth)
  @@ ("xt_labelsize" :> a.scaled.xt_labelsize) @@ ("titlesize" :> a.scaled.titlesize)

\* The bokeh branch: both label sizes popped, linewidth renamed, show added.
autocorr_bokeh(b, show) ==
  LET b1 == Pop(b, "xt_labelsize")
      b2 == Pop(b1, "titlesize")
      b3 == Put(Pop(b2, "linewidth"), "line_width", b2["linewidth"])
  IN Put(b3, "show", show)

AutocorrSteps ==
  << "convert_to_dataset", "_var_names", "xarray_var_iter", "filter_plotters_list",
     "default_grid", "_scale_fig_size", "_create_axes_grid", "_plot_autocorr" >>

plot_autocorr(a) ==
  LET data == convert_to_dataset(a.data)
      var_names == _var_names(a.var_names, data)
      max_lag == resolve_max_lag(a.max_lag, data.draws)
      plotters == filter_plotters_list(xarray_var_iter(data, var_names, a.combined),
                                       "plot_autocorr")
      axes == IF a.ax = None THEN "axes grid" ELSE a.ax[1]
      b == autocorr_plot_args(a, axes, plotters, max_lag)
      steps == IF a.ax = None THEN AutocorrSteps
               ELSE SelectSeq(AutocorrSteps, LAMBDA x : x # "_create_axes_grid")
  IN IF a.backend = "bokeh"
       THEN Return("plot_autocorr", steps, "bokeh", autocorr_bokeh(b, a.show), None)
       ELSE Return("plot_autocorr", steps, "matplotlib", b, None)

\* ------------------------------------------------------------ numpy
\* A float is a pair <<numerator, denominator>> with a positive denominator;
\* <<0, 0>> is NaN, the result of 0/0.

NaN == <<0, 0>>

IsNaN(x) == x[2] = 0

Add(x, y) == IF IsNaN(x) \/ IsNaN(y) THEN NaN ELSE <<x[1] * y[2] + y[1] * x[2], x[2] * y[2]>>

Div(x, y) ==
  IF IsNaN(x) \/ IsNaN(y) \/ y[1] = 0 THEN NaN ELSE <<x[1] * y[2], x[2] * y[1]>>

\* The number of values in bin i of the edges: half-open bins, the last one
\* closed on the right.
BinCount(values, edges, i) ==
  Cardinality({k \in DOMAIN values :
     /\ edges[i] <= values[k]
     /\ \/ values[k] < edges[i + 1]
        \/ i = Len(edges) - 1 /\ values[k] = edges[i + 1]})

RECURSIVE SumTo(_, _)
SumTo(f, n) == IF n = 0 THEN 0 ELSE f[n] + SumTo(f, n - 1)

\* np.histogram(values, density=density, bins=edges) for a sequence of edges:
\* counts, or counts / width / counts.sum() when density is set.
np_histogram(values, density, edges) ==
  LET n == Len(edges) - 1
      counts == [i \in 1..n |-> BinCount(values, edges, i)]
      total == SumTo(counts, n)
  IN [i \in 1..n |->
        IF density
          THEN (IF total = 0 THEN NaN
                ELSE <<counts[i], (edges[i + 1] - edges[i]) * total>>)
          ELSE <<counts[i], 1>>]

RECURSIVE np_cumsum(_)
np_cumsum(h) ==
  IF Len(h) <= 1 THEN h
  ELSE LET front == np_cumsum(SubSeq(h, 1, Len(h) - 1))
       IN Append(front, Add(front[Len(front)], h[Len(h)]))

\* hist /= hist[-1]
divide_by_last(h) == [i \in DOMAIN h |-> Div(h[i], h[Len(h)])]

RECURSIVE Lowest(_)
Lowest(values) ==
  IF Len(values) = 1 THEN values[1]
  ELSE LET m == Lowest(Tail(values)) IN IF values[1] < m THEN values[1] ELSE m

RECURSIVE Highest(_)
Highest(values) ==
  IF Len(values) = 1 THEN values[1]
  ELSE LET m == Highest(Tail(values)) IN IF values[1] > m THEN values[1] ELSE m

\* plot_utils.get_bins: unit-width edges from the smallest to one past the
\* largest value.  It fails on an empty sample.
get_bins(values) ==
  [i \in 1..(Highest(values) - Lowest(values) + 2) |-> Lowest(values) + i - 1]

\* ------------------------------------------------------------ bokeh distplot

\* What a call of the distribution plot did: the error raised, the effects in
\* order, the resolved kind, the caller's dicts as left, the arguments of the
\* nested plot_kde call and of ax.quad, when made.
Drawn(op, exc, info, events, kind, hist_kwargs, plot_kwargs, kde, quad) ==
  [op |-> op, raised |-> exc, info |-> info, events |-> events, kind |-> kind,
   hist_kwargs |-> hist_kwargs, plot_kwargs |-> plot_kwargs, kde |-> kde,
   quad |-> quad]

paired_sample_ignored(values2) == FALSE

\* if values2 is not None
paired_sample(values2) == values2 # None

\* legend_label = hist_kwargs.pop("label", None); color = hist_kwargs.pop("color", False)
hist_restyle(h) ==
  LET label == Get(h, "label", "")
      h1 == Pop(h, "label")
      h2 == IF label # "" THEN Put(h1, "legend_label", label) ELSE h1
      color == Get(h2, "color", "")
      h3 == Pop(h2, "color")
  IN IF color # ""
       THEN Put(Put(h3, "fill_color", color), "line_color", color)
       ELSE h3

\* remove defaults for mpl: rwidth, align, density, orientation
hist_strip_mpl(h) == Pop(Pop(Pop(Pop(h, "rwidth"), "align"), "density"), "orientation")

hist_heights_unnormalised(hist, cumulative) ==
  IF cumulative THEN np_cumsum(hist) ELSE hist

\* if cumulative: hist = np.cumsum(hist); hist /= hist[-1]
hist_heights(hist, cumulative) ==
  IF cumulative THEN divide_by_last(np_cumsum(hist)) ELSE hist

_histplot_bokeh_op(values, values2, rotated, ax, hist_kwargs) ==
  IF paired_sample(values2)
    THEN [raised |-> "NotImplementedError", events |-> <<>>,
          hist_kwargs |-> hist_kwargs, quad |-> None]
  ELSE IF hist_kwargs = None
    THEN [raised |-> "AttributeError", events |-> <<>>,
          hist_kwargs |-> hist_kwargs, quad |-> None]
  ELSE
    LET h1 == hist_strip_mpl(hist_restyle(hist_kwargs[1]))
        given == "bins" \in Keys(h1)
        h2 == Pop(h1, "bins")
    IN IF ~given /\ values.data = <<>>
         THEN [raised |-> "ValueError", events |-> <<"hist_kwargs.pop", "get_bins">>,
               hist_kwargs |-> Some(h2), quad |-> None]
         ELSE
           LET bins == IF given THEN h1["bins"] ELSE get_bins(values.data)
               density == Get(h2, "density", TRUE)
               h3 == Pop(h2, "density")
               hist == np_histogram(values.data, density, bins)
               cumulative == Get(h3, "cumulative", FALSE)
               h4 == Pop(h3, "cumulative")
               heights == hist_heights(hist, cumulative)
               lower == SubSeq(bins, 1, Len(bins) - 1)
               upper == SubSeq(bins, 2, Len(bins))
               events == <<"hist_kwargs.pop">>
                         \o (IF given THEN <<>> ELSE <<"get_bins">>)
                         \o <<"np.histogram">>
                         \o (IF cumulative THEN <<"np.cumsum">> ELSE <<>>)
                         \o <<"ax.quad">>
           IN [raised |-> "none", events |-> events, hist_kwargs |-> Some(h4),
               quad |-> Some(IF rotated
                               THEN [top |-> lower, bottom |-> upper, left |-> 0,
                                     right |-> heights, kwargs |-> h4]
                               ELSE [top |-> heights, bottom |-> 0, left |-> lower,
                                     right |-> upper, kwargs |-> h4])]

resolve_kind_lenient(kind, dtype) ==
  IF kind = "hist" \/ (kind = "auto" /\ dtype = "i") THEN "hist" ELSE "kde"

\* if kind == "auto": kind = "hist" if values.dtype.kind == "i" else "kde"
resolve_kind(kind, dtype) ==
  IF kind = "auto" THEN (IF dtype = "i" THEN "hist" ELSE "kde") ELSE kind

\* if show: bkp.show(ax, toolbar_location="above"), reached when nothing raised
show_figure(show, raised) == show /\ raised = "none"

\* plot_kde(..., backend="bokeh", show=False)
nested_show(show) == FALSE

_plot_dist_bokeh(a) ==
  LET made == IF a.ax = None THEN <<"bkp.figure">> ELSE <<>>
      read == IF a.kind = "auto" THEN <<"values.dtype">> ELSE <<>>
      kind == resolve_kind(a.kind, a.values.dtype)
  IN IF kind = "hist"
       THEN LET r == _histplot_bokeh_op(a.values, a.values2, a.rotated, a.ax,
                                        a.hist_kwargs)
                shown == IF show_figure(a.show, r.raised) THEN <<"bkp.show">> ELSE <<>>
            IN Drawn("_plot_dist_bokeh", r.raised, EmptyDict,
                     made \o read \o r.events \o shown, kind,
                     r.hist_kwargs, a.plot_kwargs, None, r.quad)
     ELSE IF kind = "kde"
       THEN LET pk == SetDefault(IF a.plot_kwargs = None THEN EmptyDict
                                 ELSE a.plot_kwargs[1], "line_color", a.color)
                call == [values |-> a.values, values2 |-> a.values2,
                         cumulative |-> a.cumulative, label |-> a.label,
                         rotated |-> a.rotated, legend |-> a.label # None,
                         plot_kwargs |-> pk, backend |-> "bokeh",
                         show |-> nested_show(a.show)]
                nested == IF call.show THEN <<"plot_kde", "bkp.show">> ELSE <<"plot_kde">>
                shown == IF show_figure(a.show, "none") THEN <<"bkp.show">> ELSE <<>>
            IN Drawn("_plot_dist_bokeh", "none", EmptyDict,
                     made \o read \o nested \o shown, kind, a.hist_kwargs,
                     IF a.plot_kwargs = None THEN None ELSE Some(pk),
                     Some(call), None)
     ELSE Drawn("_plot_dist_bokeh", "TypeError",
                [kind |-> kind, accepted |-> <<"auto", "kde", "hist">>],
                made \o read, kind, a.hist_kwargs, a.plot_kwargs, None, None)

\* ------------------------------------------------------------ mpl energyplot

\* fill_kwargs["alpha"] = alpha; fill_kwargs["color"] = color
energy_fill_kwargs(fill_kwargs, alpha, color) ==
  Put(Put(fill_kwargs, "alpha", alpha), "color", color)

energy_plot_kwargs_overwrite(plot_kwargs, color, linewidth) ==
  SetDefault(SetDefault(Put(plot_kwargs, "color", color), "alpha", 0),
             "linewidth", linewidth)

\* plot_kwargs.setdefault("color", color), ("alpha", 0), ("linewidth", linewidth)
energy_plot_kwargs(plot_kwargs, color, linewidth) ==
  SetDefault(SetDefault(SetDefault(plot_kwargs, "color", color), "alpha", 0),
             "linewidth", linewidth)

RECURSIVE energy_kde(_, _, _, _, _)
\* for alpha, color, label, value in series: ... plot_kde(...)
\* The dicts as left and the arguments of every plot_kde call, in order.
energy_kde(series, fill_kwargs, plot_kwargs, a, calls) ==
  IF series = <<>>
    THEN [fill_kwargs |-> fill_kwargs, plot_kwargs |-> plot_kwargs, calls |-> calls]
    ELSE LET s == Head(series)
             f == energy_fill_kwargs(fill_kwargs, s.alpha, s.color)
             p == energy_plot_kwargs(plot_kwargs, s.color, a.linewidth)
             call == [value |-> s.value, bw |-> a.bw, label |-> s.label,
                      textsize |-> a.xt_labelsize, fill_kwargs |-> f,
                      plot_kwargs |-> p, legend |-> FALSE]
         IN energy_kde(Tail(series), f, p, a, Append(calls, call))

\* ax.hist(value.flatten(), bins="auto", density=True, alpha=alpha,
\*         label=label, color=color, **plot_kwargs)
energy_hist_calls(series, plot_kwargs) ==
  [i \in DOMAIN series |->
     [value |-> series[i].value, bins |-> "auto", density |-> TRUE,
      alpha |-> series[i].alpha, label |-> series[i].label,
      color |-> series[i].color, kwargs |-> plot_kwargs]]

\* A keyword given both by name and through **plot_kwargs is a TypeError.
hist_keyword_clash(plot_kwargs) ==
  Keys(plot_kwargs) \cap {"bins", "density", "alpha", "label", "color"} # {}

Energy(exc, info, events, kde, hist, fill_kwargs, plot_kwargs) ==
  [op |-> "_plot_energy", raised |-> exc, info |-> info, events |-> events,
   kde |-> kde, hist |-> hist, fill_kwargs |-> fill_kwargs,
   plot_kwargs |-> plot_kwargs]

\* if bfmi: one empty line per chain; if legend: ax.legend(); ticks removed.
energy_finish(a) ==
  (IF a.bfmi THEN [i \in DOMAIN a.bfmi_values |-> "ax.plot"] ELSE <<>>)
  \o (IF a.legend THEN <<"ax.legend">> ELSE <<>>)
  \o <<"ax.set_xticks", "ax.set_yticks">>

_plot_energy(a) ==
  LET made == IF a.ax = None THEN <<"plt.subplots">> ELSE <<>>
  IN IF a.kind = "kde"
       THEN LET r == energy_kde(a.series, a.fill_kwargs, a.plot_kwargs, a, <<>>)
            IN Energy("none", EmptyDict,
                      made \o [i \in DOMAIN a.series |-> "plot_kde"] \o energy_finish(a),
                      r.calls, <<>>, r.fill_kwargs, r.plot_kwargs)
     ELSE IF a.kind \in {"hist", "histogram"}
       THEN IF a.series # <<>> /\ hist_keyword_clash(a.plot_kwargs)
              THEN Energy("TypeError", EmptyDict, made, <<>>, <<>>,
                          a.fill_kwargs, a.plot_kwargs)
              ELSE Energy("none", EmptyDict,
                          made \o [i \in DOMAIN a.series |-> "ax.hist"]
                               \o energy_finish(a),
                          <<>>, energy_hist_calls(a.series, a.plot_kwargs),
                          a.fill_kwargs, a.plot_kwargs)
     ELSE Energy("ValueError", [kind |-> a.kind], made, <<>>, <<>>,
                 a.fill_kwargs, a.plot_kwargs)

\* ------------------------------------------------------------ inputs

LineWidths == {1, 2}

\* What _scale_fig_size returns: sizes are opaque, line widths differ.
ScaleResults ==
  [figsize : {"figsize"}, ax_labelsize : {"ax_labelsize"},
   xt_labelsize : {"xt_labelsize"}, titlesize : {"titlesize"},
   linewidth : LineWidths]

Backends == {"None", "bokeh", "matplotlib"}

JointKinds == {"scatter", "kde", "hexbin", "bogus"}

\* var_names: None, or a list of variables of the dataset.
VarNameLists ==
  {<<v>> : v \in {"mu", "tau", "theta"}}
  \cup {<<v, w>> : v, w \in {"mu", "tau", "theta"}}
  \cup {<<"mu", "tau", "theta">>, <<"theta", "mu", "tau">>}

VarNameArgs == {None} \cup {Some(l) : l \in VarNameLists}

SchoolSets == SUBSET {Schools[i] : i \in DOMAIN Schools}

CoordsArgs == {None} \cup {Some([d \in {"school"} |-> S]) : S \in SchoolSets}

\* plot_kwargs a caller may have put into marginal_kwargs.
CallerPlotKwargs ==
  UNION {[K -> LineWidths] : K \in SUBSET {"linewidth", "line_width"}}

CallerMappings ==
  {EmptyDict} \cup {[k \in {"plot_kwargs"} |-> p] : p \in CallerPlotKwargs}

MarginalArgs == {None} \cup {Some(m) : m \in CallerMappings}

JointArgs ==
  [op : {"plot_joint"}, data : {Posterior(500)}, var_names : VarNameArgs,
   coords : CoordsArgs, kind : JointKinds, backend : Backends, show : BOOLEAN,
   marginal_kwargs : MarginalArgs, joint_kwargs : {None}, scaled : ScaleResults,
   ax : {None}, gridsize : {"auto"}, contour : {TRUE}, fill_last : {TRUE}]

MaxDraws == 101

MaxLag == 2

\* Draw counts around the cap of 100, and the 500 of the example datasets.
DrawCounts == (0..MaxDraws) \cup {500}

\* max_lag: None, a small lag, or the docstring's 200.
MaxLagArgs == {None} \cup {Some(l) : l \in (0..MaxLag) \cup {200}}

AutocorrArgs ==
  [op : {"plot_autocorr"}, data : {Posterior(d) : d \in DrawCounts},
   var_names : {None}, max_lag : MaxLagArgs, combined : BOOLEAN,
   backend : Backends, show : BOOLEAN, scaled : ScaleResults,
   ax : {None, Some("caller axes")}]

MaxLen == 3

Observations == {0, 1, 2}

\* 1D samples: up to MaxLen observations.
Samples == UNION {[1..n -> Observations] : n \in 0..MaxLen}

RECURSIVE Ascending(_)
\* The members of a set of numbers in increasing order.
Ascending(S) ==
  IF S = {} THEN <<>>
  ELSE LET m == CHOOSE x \in S : \A y \in S : x <= y
       IN <<m>> \o Ascending(S \ {m})

\* Bin edges a caller may give: increasing, two or more, equal or unequal widths.
EdgeLists == {Ascending(S) : S \in {T \in SUBSET {0, 1, 2, 3} : Cardinality(T) >= 2}}

MplDefaults ==
  ("label" :> "obs") @@ ("color" :> "C0") @@ ("rwidth" :> "0.9")
  @@ ("align" :> "left") @@ ("orientation" :> "vertical") @@ ("fill_alpha" :> "0.5")

WithKey(D, k, V) == D \cup {Put(d, k, v) : d \in D, v \in V}

\* hist_kwargs: with or without the matplotlib defaults, density, cumulative
\* and bins.
HistKwargs ==
  WithKey(WithKey(WithKey({EmptyDict, MplDefaults}, "density", BOOLEAN),
                  "cumulative", BOOLEAN), "bins", EdgeLists)

HistArgs ==
  [op : {"_histplot_bokeh_op"}, values : [dtype : {"i"}, data : Samples],
   values2 : {None}, rotated : BOOLEAN, ax : {Some("figure")},
   hist_kwargs : {Some(h) : h \in HistKwargs}]

DistValues == [dtype : {"i", "u", "f"}, data : {<<>>, <<0, 2, 2>>}]

DistArgs ==
  [op : {"_plot_dist_bokeh"}, values : DistValues,
   values2 : {None, Some([dtype |-> "f", data |-> <<1, 1, 0>>])},
   color : {"C0"}, kind : {"auto", "kde", "hist", "bogus"}, cumulative : {FALSE},
   label : {None, Some("obs")}, rotated : {FALSE},
   plot_kwargs : {None, Some(EmptyDict), Some([k \in {"line_color"} |-> "k"])},
   hist_kwargs : {None, Some(EmptyDict),
                  Some(Put(Put(MplDefaults, "cumulative", TRUE), "density", FALSE))},
   ax : {None, Some("figure")}, show : BOOLEAN]

MaxSeries == 3

\* A series: (alpha, color, label, value); alpha in tenths.
SeriesItems ==
  { [alpha |-> 3, color |-> "C0", label |-> "Marginal Energy", value |-> "energy"],
    [alpha |-> 7, color |-> "C5", label |-> "Energy transition", value |-> "diff"] }

SeriesLists == UNION {[1..n -> SeriesItems] : n \in 0..MaxSeries}

\* plot_kwargs of the caller: any of color, alpha and linewidth.
EnergyPlotKwargs ==
  {[k \in K |-> CASE k = "color" -> "k" [] k = "alpha" -> 10 [] k = "linewidth" -> 4] :
     K \in SUBSET {"color", "alpha", "linewidth"}}

EnergyArgs ==
  [op : {"_plot_energy"}, ax : {None, Some("axes")}, series : SeriesLists,
   energy : {"energy"}, bfmi_values : {<<"0.93", "1.02">>},
   kind : {"kde", "hist", "histogram", "bogus"}, bfmi : BOOLEAN,
   figsize : {"figsize"}, xt_labelsize : {"xt_labelsize"}, linewidth : LineWidths,
   fill_kwargs : {EmptyDict, ("alpha" :> 10) @@ ("color" :> "k")},
   plot_kwargs : EnergyPlotKwargs, bw : {"4.5"}, legend : BOOLEAN]

\* ------------------------------------------------------------ behaviour

Args == JointArgs \cup AutocorrArgs \cup HistArgs \cup DistArgs \cup EnergyArgs

Init ==
  /\ args \in Args
  /\ last = NoCall
  /\ pc = "ready"
  /\ mk = IF args.op = "plot_joint" THEN args.marginal_kwargs ELSE None

CallPlotJoint ==
  /\ pc = "ready"
  /\ args.op = "plot_joint"
  /\ last' = plot_joint(args)
  /\ pc' = "done"
  /\ UNCHANGED <<args, mk>>

CallPlotAutocorr ==
  /\ pc = "ready"
  /\ args.op = "plot_autocorr"
  /\ last' = plot_autocorr(args)
  /\ pc' = "done"
  /\ UNCHANGED <<args, mk>>

CallPlotDist ==
  /\ pc = "ready"
  /\ args.op = "_plot_dist_bokeh"
  /\ last' = _plot_dist_bokeh(args)
  /\ pc' = "done"
  /\ UNCHANGED <<args, mk>>

CallHistplot ==
  /\ pc = "ready"
  /\ args.op = "_histplot_bokeh_op"
  /\ LET r == _histplot_bokeh_op(args.values, args.values2, args.rotated, args.ax,
                                 args.hist_kwargs)
     IN last' = Drawn("_histplot_bokeh_op", r.raised, EmptyDict, r.events, "hist",
                      r.hist_kwargs, None, None, r.quad)
  /\ pc' = "done"
  /\ UNCHANGED <<args, mk>>

CallPlotEnergy ==
  /\ pc = "ready"
  /\ args.op = "_plot_energy"
  /\ last' = _plot_energy(args)
  /\ pc' = "done"
  /\ UNCHANGED <<args, mk>>

Next ==
  \/ CallPlotJoint
  \/ CallPlotAutocorr
  \/ CallPlotDist
  \/ CallHistplot
  \/ CallPlotEnergy

Spec == Init /\ [][Next]_vars

\* ------------------------------------------------------------ a caller reusing its mapping
\* The docstring's overlay example calls plot_joint twice, the second time on
\* the axes of the first.  Here the caller also hands the same marginal_kwargs
\* object to every call; mk is the mapping as the caller wrote it.

ReuseArgs(mapping) ==
  [op : {"plot_joint"}, data : {Posterior(500)},
   var_names : {Some(<<"mu", "tau">>), Some(<<"mu">>)}, coords : {None},
   kind : {"kde", "bogus"}, backend : Backends, show : {TRUE},
   marginal_kwargs : {mapping}, joint_kwargs : {None}, scaled : ScaleResults,
   ax : {None}, gridsize : {"auto"}, contour : {TRUE}, fill_last : {TRUE}]

InitReuse ==
  /\ mk \in {Some(EmptyDict), Some([k \in {"plot_kwargs"} |-> EmptyDict])}
  /\ args \in ReuseArgs(mk)
  /\ last = NoCall
  /\ pc = "ready"

\* The caller makes its next call with the mapping as the last call left it.
CallAgain ==
  /\ pc = "done"
  /\ last.op = "plot_joint"
  /\ args' \in ReuseArgs(last.mapping)
  /\ last' = NoCall
  /\ pc' = "ready"
  /\ UNCHANGED mk

NextReuse == CallPlotJoint \/ CallAgain

SpecReuse == InitReuse /\ [][NextReuse]_vars

\* ------------------------------------------------------------ properties

Joined == pc = "done" /\ last.op = "plot_joint"

Autocorrelated == pc = "done" /\ last.op = "plot_autocorr"

Listed(seq) == {seq[i] : i \in DOMAIN seq}

\* The variables a request names: the listed ones, or all of the dataset's.
NamedVariables == IF args.var_names = None THEN VarOrder ELSE args.var_names[1]

\* The schools left by the coords restriction.
SelectedSchools ==
  IF args.coords = None THEN Listed(Schools)
  ELSE Listed(Schools) \cap args.coords[1]["school"]

RECURSIVE UnitsOf(_)
\* The number of plot units a list of variables resolves to: one for a scalar,
\* one per selected school for theta.
UnitsOf(names) ==
  IF names = <<>> THEN 0
  ELSE (IF Head(names) = "theta" THEN Cardinality(SelectedSchools) ELSE 1)
       + UnitsOf(Tail(names))

\* C1 as stated: with an accepted kind, a request that does not name exactly
\* two variables fails with the cardinality error, the error reporting the
\* number of variables named (1 for one name, 3 for three names), and no
\* backend is called when the error is raised.
C1_CountsNamedVariables ==
  (Joined /\ args.kind \in {"scatter", "kde", "hexbin"} /\ args.var_names # None) =>
    /\ Len(NamedVariables) # 2 =>
         (last.raised = "Exception" /\ last.info.supplied = Len(NamedVariables))
    /\ last.raised = "Exception" => last.adapter = "none"

\* C1 as amended: with an accepted kind, the call fails with the cardinality
\* error exactly when the request does not resolve to two plot units (one per
\* variable and selected coordinate combination), the error reports the number
\* of plot units, and no backend is called when it is raised.
C1_CountsPlotUnits ==
  (Joined /\ args.kind \in {"scatter", "kde", "hexbin"}) =>
    /\ (last.raised = "Exception") <=> (UnitsOf(NamedVariables) # 2)
    /\ last.raised = "Exception" =>
         /\ last.info.supplied = UnitsOf(NamedVariables)
         /\ last.adapter = "none"
         /\ last.bundle = EmptyDict
    /\ last.raised \in {"Exception", "none"}

C1_ThreeUnitsRejected ==
  /\ Joined
  /\ last.raised = "Exception"
  /\ last.info.supplied = 3
  /\ Len(NamedVariables) = 3

\* C2: a kind outside {scatter, kde, hexbin} makes plot_joint fail with the
\* invalid-argument error before any other step: no conversion, no name
\* resolution, no iteration, the caller's mapping untouched, no backend; the
\* message lists the accepted kinds.  An accepted kind never raises it.
C2_KindCheckedFirst ==
  Joined =>
    IF args.kind \in {"scatter", "kde", "hexbin"}
      THEN last.raised # "ValueError"
      ELSE /\ last.raised = "ValueError"
           /\ last.steps = <<>>
           /\ last.adapter = "none"
           /\ last.mapping = args.marginal_kwargs
           /\ Listed(last.info.accepted) = {"scatter", "kde", "hexbin"}
           /\ last.info.kind = args.kind

C2_BogusRejected ==
  Joined /\ args.kind = "bogus" /\ last.raised = "ValueError" /\ args.marginal_kwargs # None

\* C4: with max_lag unset the backend receives min(100, number of draws); a
\* supplied max_lag is handed over unchanged, also above the number of draws.
C4_MaxLagDefault ==
  Autocorrelated =>
    /\ last.raised = "none"
    /\ last.bundle["max_lag"] =
         IF args.max_lag = None
           THEN (IF args.data.draws <= 100 THEN args.data.draws ELSE 100)
           ELSE args.max_lag[1]

C4_CappedAtHundred ==
  /\ Autocorrelated
  /\ args.max_lag = None
  /\ args.data.draws = 500
  /\ last.bundle["max_lag"] = 100

LabelSizeKeys == {"xt_labelsize", "ax_labelsize", "titlesize"}

\* The line widths a bundle carries, by key: at the top level for
\* plot_autocorr, in the marginal plot_kwargs for plot_joint.
WidthKeys ==
  IF last.op = "plot_autocorr" THEN Keys(last.bundle) \cap {"linewidth", "line_width"}
  ELSE Keys(last.bundle["marginal_kwargs"]["plot_kwargs"])
         \cap {"linewidth", "line_width"}

Dispatched == pc = "done" /\ last.op \in {"plot_autocorr", "plot_joint"} /\ last.raised = "none"

\* C5 as stated: in both dispatchers the bokeh bundle holds no label-size key
\* and the line width under line_width only; the matplotlib bundle holds the
\* line width under linewidth and keeps the label-size keys.
C5_BokehDropsLabelSizes ==
  Dispatched =>
    /\ last.adapter = "bokeh" =>
         /\ Keys(last.bundle) \cap LabelSizeKeys = {}
         /\ WidthKeys = {"line_width"}
    /\ last.adapter = "matplotlib" =>
         /\ "linewidth" \in WidthKeys
         /\ Keys(last.bundle) \cap LabelSizeKeys # {}

AutocorrKeys ==
  {"axes", "plotters", "max_lag", "combined", "linewidth", "xt_labelsize", "titlesize"}

JointKeys ==
  {"ax", "figsize", "plotters", "ax_labelsize", "xt_labelsize", "kind", "contour",
   "fill_last", "joint_kwargs", "gridsize", "marginal_kwargs"}

\* C5 as amended: plot_autocorr's bokeh bundle holds no label-size key;
\* plot_joint's bokeh bundle omits ax_labelsize and keeps xt_labelsize; both
\* carry the scaled line width under line_width and never under linewidth.
\* The matplotlib bundle is the generic bundle: line width under linewidth,
\* label-size keys kept.  Every generic key is passed on, renamed or omitted.
C5_BokehKeyTranslation ==
  Dispatched =>
    /\ (last.op = "plot_autocorr" /\ last.adapter = "bokeh") =>
         /\ Keys(last.bundle) =
              (AutocorrKeys \ {"xt_labelsize", "titlesize", "linewidth"})
                \cup {"line_width", "show"}
         /\ last.bundle["line_width"] = args.scaled.linewidth
    /\ (last.op = "plot_joint" /\ last.adapter = "bokeh") =>
         /\ Keys(last.bundle) = (JointKeys \ {"ax_labelsize"}) \cup {"show"}
         /\ last.bundle["marginal_kwargs"]["plot_kwargs"]["line_width"]
              = args.scaled.linewidth
    /\ last.adapter = "bokeh" => WidthKeys = {"line_width"}
    /\ (last.op = "plot_autocorr" /\ last.adapter = "matplotlib") =>
         /\ Keys(last.bundle) = AutocorrKeys
         /\ last.bundle["linewidth"] = args.scaled.linewidth
    /\ (last.op = "plot_joint" /\ last.adapter = "matplotlib") =>
         /\ Keys(last.bundle) = JointKeys
         /\ last.bundle["marginal_kwargs"]["plot_kwargs"]["linewidth"]
              = args.scaled.linewidth

C5_JointBokehKeepsTickSize ==
  /\ Dispatched
  /\ last.op = "plot_joint"
  /\ last.adapter = "bokeh"
  /\ "xt_labelsize" \in Keys(last.bundle)
  /\ "ax_labelsize" \notin Keys(last.bundle)

Distributed == pc = "done" /\ last.op = "_plot_dist_bokeh"

Times(events, e) == Cardinality({i \in DOMAIN events : events[i] = e})

\* C6: show alone controls display.  _plot_dist_bokeh displays exactly once,
\* after all drawing, when show is true and nothing is raised, and never
\* otherwise; its nested plot_kde call is made with display off.  In
\* plot_autocorr and plot_joint the value of show reaches the selected backend,
\* whichever backend is selected.
C6_ShowControlsDisplay ==
  /\ Distributed =>
       /\ Times(last.events, "bkp.show") = IF args.show /\ last.raised = "none" THEN 1 ELSE 0
       /\ Times(last.events, "bkp.show") = 1 => last.events[Len(last.events)] = "bkp.show"
       /\ last.kde # None => ~last.kde[1].show
  /\ Dispatched =>
       /\ "show" \in Keys(last.bundle)
       /\ last.bundle["show"] = args.show

\* C7: when _plot_dist_bokeh resolves to hist and a second sample is given,
\* the call fails with the not-implemented error before hist_kwargs is
\* modified, before any histogram is computed, before anything is drawn and
\* without display.
C7_PairedHistRejected ==
  (Distributed /\ last.kind = "hist" /\ args.values2 # None) =>
    /\ last.raised = "NotImplementedError"
    /\ last.hist_kwargs = args.hist_kwargs
    /\ last.quad = None
    /\ Listed(last.events) \subseteq {"bkp.figure", "values.dtype"}

C7_PairedIntegerSample ==
  /\ Distributed
  /\ args.kind = "auto"
  /\ args.values.dtype = "i"
  /\ args.values2 # None
  /\ args.show
  /\ args.hist_kwargs # None
  /\ "label" \in Keys(args.hist_kwargs[1])
  /\ last.raised = "NotImplementedError"

\* C8: no state is shared across plot_joint calls that reuse the caller's
\* marginal_kwargs mapping: what a call hands to its backend is what it would
\* hand over with the mapping as the caller wrote it, and the marginal
\* plot_kwargs carry the line width under exactly one key, linewidth for
\* matplotlib and line_width for bokeh.
C8_NoSharedState ==
  (Joined /\ last.raised = "none") =>
    /\ last.bundle = plot_joint([args EXCEPT !.marginal_kwargs = mk]).bundle
    /\ WidthKeys = IF last.adapter = "bokeh" THEN {"line_width"} ELSE {"linewidth"}

\* A cumulative histogram was drawn by _histplot_bokeh_op.
CumulativeDrawn ==
  /\ pc = "done"
  /\ last.op = "_histplot_bokeh_op"
  /\ last.quad # None
  /\ Get(args.hist_kwargs[1], "cumulative", FALSE)

BarHeights == IF args.rotated THEN last.quad[1].right ELSE last.quad[1].top

BarLower == IF args.rotated THEN last.quad[1].top ELSE last.quad[1].left

BarUpper == IF args.rotated THEN last.quad[1].bottom ELSE last.quad[1].right

\* The observations that fall into bar i.
InBar(i) ==
  {k \in DOMAIN args.values.data :
     LET v == args.values.data[k]
     IN /\ BarLower[i] <= v
        /\ (v < BarUpper[i] \/ (i = Len(BarLower) /\ v = BarUpper[i]))}

RECURSIVE WidthsProduct(_)
WidthsProduct(n) == IF n = 0 THEN 1 ELSE (BarUpper[n] - BarLower[n]) * WidthsProduct(n - 1)

RECURSIVE DensityMass(_)
\* The sum of count / width over bars 1..i, times the product of all widths.
DensityMass(i) ==
  IF i = 0 THEN 0
  ELSE Cardinality(InBar(i)) * (WidthsProduct(Len(BarLower)) \div (BarUpper[i] - BarLower[i]))
       + DensityMass(i - 1)

Leq(x, y) == ~IsNaN(x) /\ ~IsNaN(y) /\ x[1] * y[2] <= y[1] * x[2]

IsOne(x) == ~IsNaN(x) /\ x[1] = x[2]

NonDecreasing(h) == \A i \in 1..(Len(h) - 1) : Leq(h[i], h[i + 1])

MplOnlyKeys ==
  {"label", "color", "rwidth", "align", "density", "orientation", "bins", "cumulative"}

HistKeysRemoved ==
  /\ Keys(last.quad[1].kwargs) \cap MplOnlyKeys = {}
  /\ last.quad[1].kwargs = last.hist_kwargs[1]
  /\ Keys(last.hist_kwargs[1]) \ {"legend_label", "fill_color", "line_color"}
       = Keys(args.hist_kwargs[1]) \ MplOnlyKeys

\* C9 as stated: with cumulative set, for every sample the heights drawn are
\* non-decreasing and the last one is 1; they come from the density-normalised
\* histogram whatever density the caller gave; label, color, rwidth, align,
\* density, orientation, bins and cumulative are gone from hist_kwargs when
\* the rest is passed to the drawing call.
C9_CumulativeEndsAtOne ==
  CumulativeDrawn =>
    /\ NonDecreasing(BarHeights)
    /\ IsOne(BarHeights[Len(BarHeights)])
    /\ HistKeysRemoved

\* C9 as amended: the same, for every sample with at least one observation
\* inside the bins (with none, every height is NaN).
C9_CumulativeEndsAtOneWhenCounted ==
  CumulativeDrawn =>
    /\ HistKeysRemoved
    /\ Len(BarHeights) = Len(BarLower)
    /\ IF DensityMass(Len(BarLower)) = 0
         THEN \A i \in DOMAIN BarHeights : IsNaN(BarHeights[i])
         ELSE /\ NonDecreasing(BarHeights)
              /\ IsOne(BarHeights[Len(BarHeights)])
              /\ \A i \in DOMAIN BarHeights :
                   BarHeights[i][1] * DensityMass(Len(BarLower))
                     = BarHeights[i][2] * DensityMass(i)

C9_UnequalBinsCounted ==
  /\ CumulativeDrawn
  /\ Get(args.hist_kwargs[1], "density", TRUE) = FALSE
  /\ "rwidth" \in Keys(args.hist_kwargs[1])
  /\ BarLower = <<0, 1>> /\ BarUpper = <<1, 3>>
  /\ Cardinality(InBar(1)) = 1 /\ Cardinality(InBar(2)) = 2
  /\ ~IsOne(BarHeights[1])

Energised == pc = "done" /\ last.op = "_plot_energy"

\* C10: with kind kde the fill_kwargs of the i-th density plot carry the alpha
\* and colour of the i-th series, while colour, alpha and linewidth of
\* plot_kwargs keep the caller's values or else are set once from the first
\* series (its colour, alpha 0, the given linewidth) for every series.  A kind
\* other than kde, hist or histogram raises the not-recognised error before
\* the BFMI entries, the legend and the tick removal.
C10_EnergyKdeStyles ==
  Energised =>
    /\ args.kind = "kde" =>
         /\ last.raised = "none"
         /\ Len(last.kde) = Len(args.series)
         /\ \A i \in DOMAIN args.series :
              /\ last.kde[i].value = args.series[i].value
              /\ last.kde[i].fill_kwargs["alpha"] = args.series[i].alpha
              /\ last.kde[i].fill_kwargs["color"] = args.series[i].color
              /\ last.kde[i].plot_kwargs["color"]
                   = Get(args.plot_kwargs, "color", args.series[1].color)
              /\ last.kde[i].plot_kwargs["alpha"] = Get(args.plot_kwargs, "alpha", 0)
              /\ last.kde[i].plot_kwargs["linewidth"]
                   = Get(args.plot_kwargs, "linewidth", args.linewidth)
    /\ args.kind \notin {"kde", "hist", "histogram"} =>
         /\ last.raised = "ValueError"
         /\ last.info.kind = args.kind
         /\ Listed(last.events)
              \cap {"ax.plot", "ax.legend", "ax.set_xticks", "ax.set_yticks"} = {}

C10_TwoSeriesOneLineColour ==
  /\ Energised
  /\ args.kind = "kde"
  /\ Len(args.series) >= 2
  /\ args.series[1].color # args.series[2].color
  /\ "color" \notin Keys(args.plot_kwargs)
  /\ args.fill_kwargs # EmptyDict
  /\ last.kde[2].plot_kwargs["color"] = args.series[1].color

====
